---- MODULE Spec2Model ----
(***************************************************************************)
(* volatility-mcp: the plugin registry and dispatch layer of the REST      *)
(* server (volatility_fastapi_server.py), the outbound request / response  *)
(* normalisation of HttpClient (http_client.py) and the tool calls of      *)
(* VolatilityMCP (vol_mcp_server.py).                                      *)
(*                                                                         *)
(* Four specifications share the variables:                                *)
(*   Spec          the REST server process: module import, lifespan,      *)
(*                 the /analyze routes, the MCP tool calls against it;    *)
(*   SpecPlugin    the registered WindowsPlugin objects run directly;     *)
(*   SpecAnalyzer  the VolatilityAnalyzer class driven through its public  *)
(*                 methods with arbitrary registrations;                   *)
(*   SpecHttp      HttpClient._execute_request over bounded responses.     *)
(*                                                                         *)
(* Server-side text is kept as TLA+ strings; client-side text (bodies,     *)
(* lines) is a sequence of one-character strings so that strip,            *)
(* splitlines, JSON parsing and str() are computed character by character. *)
(***************************************************************************)
EXTENDS Integers, Sequences, FiniteSets, TLC

VARIABLES
    plugins,    \* VolatilityAnalyzer.plugins: insertion-ordered dict, a sequence of plugins with distinct names
    regLog,     \* history: every plugin handed to register_plugin, in call order
    pc,         \* number of module-level register_plugin statements executed
    phase,      \* "importing" | "serving" | "failed": where the server process is
    environ,    \* os.environ: a function from the names that are set to their values
    fs,         \* the set of paths that exist on disk
    startup,    \* what lifespan saw: the environment it validated and validate_plugins' answer
    last,       \* the last analyzer call / REST request and its outcome
    hcall,      \* the last HttpClient call: method and what the transport did
    hret        \* what that call returned

vars == <<plugins, regLog, pc, phase, environ, fs, startup, last, hcall, hret>>

----------------------------------------------------------------------------
(* Bounds of the model *)

\* register_plugin calls made in SpecAnalyzer
MaxRegs == 3

----------------------------------------------------------------------------
(* Python values *)

\* Optional[T]: None is the empty sequence, a value x is <<x>>
None == <<>>
Some(x) == <<x>>

\* truthiness of an Optional[str]: None and "" are falsy
Falsy(opt) == opt = None \/ opt[1] = ""

\* os.getenv(name)
getenv(env, name) == IF name \in DOMAIN env THEN Some(env[name]) ELSE None

\* os.path.exists(path)
exists(files, path) == path \in files

----------------------------------------------------------------------------
(* Plugins *)

WindowsPlugin(name, plugin_name, description) ==
    [name |-> name, plugin_name |-> plugin_name, description |-> description]

\* the six module-level registrations, in source order
ModuleRegistrations ==
    << WindowsPlugin("process", "windows.pslist.PsList", "Get process information from memory image"),
       WindowsPlugin("connections", "windows.netscan.NetScan", "Get network connection information from memory image"),
       WindowsPlugin("cmdline", "windows.cmdline.CmdLine", "Get command line information from memory image"),
       WindowsPlugin("hashdump", "windows.hashdump.Hashdump", "Dump password hashes from memory image"),
       WindowsPlugin("cachedump", "windows.cachedump.Cachedump", "Dump cached domain credentials from memory image"),
       WindowsPlugin("lsadump", "windows.lsadump.Lsadump", "Dump LSA secrets from memory image") >>

\* plugins handed to register_plugin in SpecAnalyzer: two share the name "process"
PluginUniverse ==
    { WindowsPlugin("process", "windows.pslist.PsList", "Get process information from memory image"),
      WindowsPlugin("process", "windows.pstree.PsTree", "Get the process tree from memory image"),
      WindowsPlugin("cmdline", "windows.cmdline.CmdLine", "Get command line information from memory image") }

\* names asked for: registered ones and ones no registration uses
RequestNames == {"process", "connections", "cmdline", "connection"}

ImagePaths == {"/cases/mem.raw", "/cases/other.vmem"}

VolBinPath == "/opt/volatility3/vol.py"

\* the values of os.environ's VOLATILITY_BIN: unset, set to "", set to a path
Environs == {<<>>, [VOLATILITY_BIN |-> ""], [VOLATILITY_BIN |-> VolBinPath]}

FileSystems == {{}, {VolBinPath}}

\* what subprocess.run can do: fail to start the process, or complete with an exit status
ProcOutcomes ==
    { [started |-> TRUE,  returncode |-> 0, stdout |-> "PID\tImageFileName\n4\tSystem\n", stderr |-> ""],
      [started |-> TRUE,  returncode |-> 0, stdout |-> "", stderr |-> "Progress: 100.00"],
      [started |-> TRUE,  returncode |-> 1, stdout |-> "Volatility 3 Framework", stderr |-> "Unsatisfied requirement plugins.PsList.kernel"],
      [started |-> FALSE, returncode |-> 0, stdout |-> "", stderr |-> "[Errno 13] Permission denied"] }

\* the outcomes drawn per plugin in a batch call: exit status 0 and exit status 1
BatchOutcomes == {p \in ProcOutcomes : p.started /\ (p.returncode = 0 => p.stdout # "")}

----------------------------------------------------------------------------
(* Outcome of a Python call: raised = "" when it returned `value`, else the *)
(* exception class, with str(e) in `value`.  runs lists every plugin.run    *)
(* invocation the call made, and every process it started.                 *)

Return(value, runs) == [raised |-> "", value |-> value, status_code |-> 0, runs |-> runs]
Raise(cls, msg, runs) == [raised |-> cls, value |-> msg, status_code |-> 0, runs |-> runs]

\* a run that relies on the startup validation for the executable's presence
run_unchecked(self, image_path, env, files, proc) ==
    LET vol_bin == getenv(env, "VOLATILITY_BIN") IN
    IF Falsy(vol_bin)
    THEN Raise("RuntimeError", "VOLATILITY_BIN') environment variable is not set", <<>>)
    ELSE LET argv == <<vol_bin[1], "-f", image_path, self.plugin_name>> IN
         IF ~proc.started
         THEN Raise("OSError", proc.stderr, <<argv>>)
         ELSE IF proc.returncode # 0
         THEN Raise("RuntimeError", "Plugin " \o self.name \o " failed: " \o proc.stderr, <<argv>>)
         ELSE Return(proc.stdout, <<argv>>)

\* WindowsPlugin.run(self, image_path); proc is what subprocess.run does if it is reached
run(self, image_path, env, files, proc) ==
    LET vol_bin == getenv(env, "VOLATILITY_BIN") IN
    IF Falsy(vol_bin)
    THEN Raise("RuntimeError", "VOLATILITY_BIN') environment variable is not set", <<>>)
    ELSE IF ~exists(files, vol_bin[1])
    THEN Raise("RuntimeError", "Volatility executable not found at " \o vol_bin[1], <<>>)
    ELSE LET argv == <<vol_bin[1], "-f", image_path, self.plugin_name>> IN
         IF ~proc.started
         THEN Raise("OSError", proc.stderr, <<argv>>)
         ELSE IF proc.returncode # 0
         THEN Raise("RuntimeError", "Plugin " \o self.name \o " failed: " \o proc.stderr, <<argv>>)
         ELSE Return(proc.stdout, <<argv>>)

\* one plugin.run invocation, as recorded in a call's runs
RunRecord(plugin, r) ==
    [plugin |-> plugin, raised |-> r.raised, value |-> r.value, spawned |-> r.runs]

----------------------------------------------------------------------------
(* VolatilityAnalyzer *)

HasKey(d, name) == \E i \in DOMAIN d : d[i].name = name
KeyIndex(d, name) == CHOOSE i \in DOMAIN d : d[i].name = name

\* mutant of register_plugin: self.plugins.setdefault(plugin.name, plugin), the first registration wins
register_plugin_setdefault(reg, plugin) ==
    IF \E i \in DOMAIN reg : reg[i].name = plugin.name THEN reg ELSE Append(reg, plugin)

\* self.plugins[plugin.name] = plugin: a present key keeps its position
register_plugin(reg, plugin) ==
    IF HasKey(reg, plugin.name)
    THEN [i \in DOMAIN reg |-> IF reg[i].name = plugin.name THEN plugin ELSE reg[i]]
    ELSE Append(reg, plugin)

\* self.plugins.get(name)
get_plugin(reg, name) ==
    IF HasKey(reg, name) THEN Some(reg[KeyIndex(reg, name)]) ELSE None

\* VolatilityPlugin.get_info
get_info(self) == [name |-> self.name, description |-> self.description]

list_plugins(reg) == [i \in DOMAIN reg |-> get_info(reg[i])]

\* mutant of analyze: no not-found guard, an unknown name falls through to the first registered plugin
analyze_fallback(reg, image_path, plugin_name, env, files, proc) ==
    LET plugin == IF get_plugin(reg, plugin_name) = None /\ reg # <<>>
                  THEN Some(reg[1]) ELSE get_plugin(reg, plugin_name) IN
    IF plugin = None
    THEN [out |-> Raise("ValueError", "Plugin " \o plugin_name \o " not found", <<>>), plugins |-> reg]
    ELSE LET r == run(plugin[1], image_path, env, files, proc) IN
         [out |-> [r EXCEPT !.runs = <<RunRecord(plugin[1], r)>>], plugins |-> reg]

\* analyze(image_path, plugin_name): the outcome and the registry it leaves
analyze(reg, image_path, plugin_name, env, files, proc) ==
    LET plugin == get_plugin(reg, plugin_name) IN
    IF plugin = None
    THEN [out |-> Raise("ValueError", "Plugin " \o plugin_name \o " not found", <<>>), plugins |-> reg]
    ELSE LET r == run(plugin[1], image_path, env, files, proc) IN
         [out |-> [r EXCEPT !.runs = <<RunRecord(plugin[1], r)>>], plugins |-> reg]

\* results[name] = text on a dict kept as a sequence of <<name, text>> pairs
DictSet(d, k, v) ==
    IF \E i \in DOMAIN d : d[i][1] = k
    THEN [i \in DOMAIN d |-> IF d[i][1] = k THEN <<k, v>> ELSE d[i]]
    ELSE Append(d, <<k, v>>)

\* the for loop of analyze_all from item i on; procs[i] is what subprocess.run does for item i
RECURSIVE analyze_all_loop(_, _, _, _, _, _, _)
analyze_all_loop(reg, image_path, env, files, procs, i, acc) ==
    IF i > Len(reg) THEN acc
    ELSE LET r == run(reg[i], image_path, env, files, procs[i])
             text == IF r.raised = "" THEN r.value ELSE "Error: " \o r.value
         IN analyze_all_loop(reg, image_path, env, files, procs, i + 1,
                [results |-> DictSet(acc.results, reg[i].name, text),
                 runs |-> Append(acc.runs, RunRecord(reg[i], r))])

\* mutant of analyze_all: no try/except around plugin.run, the first failure ends the batch by propagating
RECURSIVE analyze_all_abort_loop(_, _, _, _, _, _, _)
analyze_all_abort_loop(reg, image_path, env, files, procs, i, acc) ==
    IF i > Len(reg) THEN acc
    ELSE LET r == run(reg[i], image_path, env, files, procs[i]) IN
         IF r.raised # ""
         THEN [raised |-> r.raised, results |-> acc.results, runs |-> Append(acc.runs, RunRecord(reg[i], r))]
         ELSE analyze_all_abort_loop(reg, image_path, env, files, procs, i + 1,
                [raised |-> "", results |-> DictSet(acc.results, reg[i].name, r.value),
                 runs |-> Append(acc.runs, RunRecord(reg[i], r))])

analyze_all_abort(reg, image_path, env, files, procs) ==
    analyze_all_abort_loop(reg, image_path, env, files, procs, 1, [raised |-> "", results |-> <<>>, runs |-> <<>>])

analyze_all(reg, image_path, env, files, procs) ==
    LET done == analyze_all_loop(reg, image_path, env, files, procs, 1, [results |-> <<>>, runs |-> <<>>])
    IN [raised |-> "", results |-> done.results, runs |-> done.runs]

\* mutant of validate_plugins: the os.path.exists check is left out
validate_plugins_no_exists(reg, env, files) ==
    LET vol_bin == getenv(env, "VOLATILITY_BIN") IN
    IF Falsy(vol_bin)
    THEN [errors |-> <<"VOLATILITY_BIN environment variable is not set">>, checked |-> <<>>]
    ELSE [errors |-> <<>>, checked |-> [i \in DOMAIN reg |-> reg[i].name]]

\* validate_plugins: the error list, and the plugins the per-plugin loop visited
validate_plugins(reg, env, files) ==
    LET vol_bin == getenv(env, "VOLATILITY_BIN") IN
    IF Falsy(vol_bin)
    THEN [errors |-> <<"VOLATILITY_BIN environment variable is not set">>, checked |-> <<>>]
    ELSE IF ~exists(files, vol_bin[1])
    THEN [errors |-> <<"Volatility executable not found at " \o vol_bin[1]>>, checked |-> <<>>]
    ELSE [errors |-> <<>>, checked |-> [i \in DOMAIN reg |-> reg[i].name]]

----------------------------------------------------------------------------
(* REST routes and the startup lifespan *)

\* every exception class the model raises derives from Exception
IsException(cls) == cls \in {"RuntimeError", "ValueError", "OSError", "HTTPException"}

\* str(e): starlette's HTTPException renders as "<status_code>: <detail>"
ExcStr(e) ==
    IF e.raised = "HTTPException"
    THEN (IF e.status_code = 404 THEN "404" ELSE "500") \o ": " \o e.value
    ELSE e.value

HTTPException(status_code, detail, runs) ==
    [raised |-> "HTTPException", value |-> detail, status_code |-> status_code, runs |-> runs]

\* the try block of analyze_with_plugin
analyze_with_plugin_try(reg, plugin_name, image_path, env, files, proc) ==
    LET plugin == get_plugin(reg, plugin_name) IN
    IF plugin = None
    THEN HTTPException(404, "Plugin " \o plugin_name \o " not found", <<>>)
    ELSE LET r == run(plugin[1], image_path, env, files, proc) IN
         [r EXCEPT !.runs = <<RunRecord(plugin[1], r)>>]

\* GET /analyze/{plugin_name}: the try block under its `except Exception` clause
analyze_with_plugin(reg, plugin_name, image_path, env, files, proc) ==
    LET t == analyze_with_plugin_try(reg, plugin_name, image_path, env, files, proc) IN
    IF t.raised = ""
    THEN [status_code |-> 200, detail |-> "", body |-> <<<<plugin_name, t.value>>>>, runs |-> t.runs]
    ELSE IF IsException(t.raised)
    THEN [status_code |-> 500, detail |-> ExcStr(t), body |-> <<>>, runs |-> t.runs]
    ELSE [status_code |-> t.status_code, detail |-> t.value, body |-> <<>>, runs |-> t.runs]

\* GET /analyze
analyze_memory(reg, image_path, env, files, procs) ==
    LET r == analyze_all(reg, image_path, env, files, procs) IN
    IF r.raised = ""
    THEN [status_code |-> 200, detail |-> "", body |-> r.results, runs |-> r.runs]
    ELSE [status_code |-> 500, detail |-> r.raised, body |-> <<>>, runs |-> r.runs]

\* lifespan up to its yield: raises when validate_plugins reports anything
lifespan(reg, env, files) ==
    LET v == validate_plugins(reg, env, files) IN
    [errors |-> v.errors, checked |-> v.checked,
     raised |-> IF v.errors # <<>> THEN "RuntimeError" ELSE ""]

----------------------------------------------------------------------------
(* Text as sequences of one-character strings *)

\* str.upper() on the letters HTTP method names are spelled with
LowerLetters == <<"a", "b", "c", "d", "e", "f", "g", "h", "i", "j", "k", "l", "m", "n", "o", "p", "q", "r", "s", "t", "u", "v", "w", "x", "y", "z">>
UpperLetters == <<"A", "B", "C", "D", "E", "F", "G", "H", "I", "J", "K", "L", "M", "N", "O", "P", "Q", "R", "S", "T", "U", "V", "W", "X", "Y", "Z">>
UpperChar(c) ==
    IF \E i \in DOMAIN LowerLetters : LowerLetters[i] = c
    THEN UpperLetters[CHOOSE i \in DOMAIN LowerLetters : LowerLetters[i] = c]
    ELSE c
upper(s) == [i \in DOMAIN s |-> UpperChar(s[i])]

\* str(n) of an int
Digits == <<"0", "1", "2", "3", "4", "5", "6", "7", "8", "9">>
RECURSIVE IntStr(_)
IntStr(n) ==
    IF n < 0 THEN <<"-">> \o IntStr(-n)
    ELSE IF n < 10 THEN <<Digits[n + 1]>>
    ELSE IntStr(n \div 10) \o <<Digits[(n % 10) + 1]>>

\* the characters str.strip() removes, among those the model's texts are made of
PyWhitespace == {" ", "\t", "\n", "\r", "\f"}

RECURSIVE lstrip(_)
lstrip(s) == IF s # <<>> /\ Head(s) \in PyWhitespace THEN lstrip(Tail(s)) ELSE s
RECURSIVE rstrip(_)
rstrip(s) == IF s # <<>> /\ s[Len(s)] \in PyWhitespace THEN rstrip(SubSeq(s, 1, Len(s) - 1)) ELSE s
\* mutant of strip: only leading whitespace is removed
strip_leading_only(s) == lstrip(s)

strip(s) == rstrip(lstrip(s))

\* the line boundaries of str.splitlines(), among the model's characters; "\r\n" is one boundary
LineBoundaries == {"\n", "\r", "\f"}

RECURSIVE splitlines_from(_, _, _, _)
splitlines_from(s, i, cur, acc) ==
    IF i > Len(s) THEN (IF cur = <<>> THEN acc ELSE Append(acc, cur))
    ELSE IF s[i] = "\r" /\ i < Len(s) /\ s[i + 1] = "\n"
    THEN splitlines_from(s, i + 2, <<>>, Append(acc, cur))
    ELSE IF s[i] \in LineBoundaries
    THEN splitlines_from(s, i + 1, <<>>, Append(acc, cur))
    ELSE splitlines_from(s, i + 1, Append(cur, s[i]), acc)

splitlines(s) == splitlines_from(s, 1, <<>>, <<>>)

\* '\n' in v
HasNewline(s) == \E i \in DOMAIN s : s[i] = "\n"

----------------------------------------------------------------------------
(* JSON values as Python objects: dict (insertion-ordered <<key, value>> pairs), *)
(* list, str, int, bool, None                                                 *)

JNull == [t |-> "null", s |-> <<>>, n |-> 0, items |-> <<>>]
JBool(b) == [t |-> "bool", s |-> <<>>, n |-> IF b THEN 1 ELSE 0, items |-> <<>>]
JInt(n) == [t |-> "int", s |-> <<>>, n |-> n, items |-> <<>>]
JStr(s) == [t |-> "str", s |-> s, n |-> 0, items |-> <<>>]
JList(items) == [t |-> "list", s |-> <<>>, n |-> 0, items |-> items]
JDict(items) == [t |-> "dict", s |-> <<>>, n |-> 0, items |-> items]

\* d[k] = v on the pairs of a dict: a present key keeps its position
PairSet(d, k, v) ==
    IF \E i \in DOMAIN d : d[i][1] = k
    THEN [i \in DOMAIN d |-> IF d[i][1] = k THEN <<k, v>> ELSE d[i]]
    ELSE Append(d, <<k, v>>)

(* response.json(): json.loads over the subset of JSON the bodies use: objects,  *)
(* arrays, strings with the escapes \" \\ \/ \n \r \t \f, integers, true, false, *)
(* null.  A parse answers [ok, v, next]: the value and the position after it.   *)

PFail == [ok |-> FALSE, v |-> JNull, next |-> 0]
POk(v, next) == [ok |-> TRUE, v |-> v, next |-> next]

JsonWhitespace == {" ", "\t", "\n", "\r"}
ControlChars == {"\t", "\n", "\r", "\f"}

At(s, i) == IF i >= 1 /\ i <= Len(s) THEN s[i] ELSE ""

RECURSIVE SkipWs(_, _)
SkipWs(s, i) == IF At(s, i) \in JsonWhitespace THEN SkipWs(s, i + 1) ELSE i

Unescape(c) ==
    CASE c = "n" -> "\n" [] c = "r" -> "\r" [] c = "t" -> "\t" [] c = "f" -> "\f" [] OTHER -> c

\* the characters of a string literal from position i, just after its opening quote
RECURSIVE ScanString(_, _, _)
ScanString(s, i, acc) ==
    IF i > Len(s) THEN PFail
    ELSE IF s[i] = "\"" THEN POk(JStr(acc), i + 1)
    ELSE IF s[i] = "\\"
    THEN (IF At(s, i + 1) \in {"\"", "\\", "/", "n", "r", "t", "f"}
          THEN ScanString(s, i + 2, Append(acc, Unescape(s[i + 1])))
          ELSE PFail)
    ELSE IF s[i] \in ControlChars THEN PFail
    ELSE ScanString(s, i + 1, Append(acc, s[i]))

DigitValue(c) == (CHOOSE d \in DOMAIN Digits : Digits[d] = c) - 1
IsDigit(c) == \E d \in DOMAIN Digits : Digits[d] = c

RECURSIVE ScanDigits(_, _, _)
ScanDigits(s, i, n) ==
    IF IsDigit(At(s, i)) THEN ScanDigits(s, i + 1, 10 * n + DigitValue(s[i])) ELSE [n |-> n, next |-> i]

\* an integer: an optional minus sign, then 0 or a digit sequence without a leading 0
ScanNumber(s, i) ==
    LET neg == At(s, i) = "-"
        j == IF neg THEN i + 1 ELSE i
    IN IF ~IsDigit(At(s, j)) THEN PFail
       ELSE IF s[j] = "0" THEN POk(JInt(0), j + 1)
       ELSE LET d == ScanDigits(s, j, 0) IN POk(JInt(IF neg THEN -d.n ELSE d.n), d.next)

StartsWith(s, i, word) ==
    /\ i + Len(word) - 1 <= Len(s)
    /\ \A k \in DOMAIN word : s[i + k - 1] = word[k]

RECURSIVE ParseValue(_, _)
RECURSIVE ParseMembers(_, _, _)
RECURSIVE ParseElements(_, _, _)

\* the members of an object from position i (at a key), pairs being those read so far
ParseMembers(s, i, pairs) ==
    IF At(s, i) # "\"" THEN PFail
    ELSE LET k == ScanString(s, i + 1, <<>>) IN
         IF ~k.ok THEN PFail
         ELSE LET c == SkipWs(s, k.next) IN
              IF At(s, c) # ":" THEN PFail
              ELSE LET v == ParseValue(s, SkipWs(s, c + 1)) IN
                   IF ~v.ok THEN PFail
                   ELSE LET e == SkipWs(s, v.next)
                            more == PairSet(pairs, k.v.s, v.v)
                        IN IF At(s, e) = "}" THEN POk(JDict(more), e + 1)
                           ELSE IF At(s, e) = "," THEN ParseMembers(s, SkipWs(s, e + 1), more)
                           ELSE PFail

\* the elements of an array from position i (at a value)
ParseElements(s, i, items) ==
    LET v == ParseValue(s, i) IN
    IF ~v.ok THEN PFail
    ELSE LET e == SkipWs(s, v.next)
             more == Append(items, v.v)
         IN IF At(s, e) = "]" THEN POk(JList(more), e + 1)
            ELSE IF At(s, e) = "," THEN ParseElements(s, SkipWs(s, e + 1), more)
            ELSE PFail

ParseValue(s, i) ==
    LET c == At(s, i) IN
    IF c = "{" THEN (LET j == SkipWs(s, i + 1) IN
                     IF At(s, j) = "}" THEN POk(JDict(<<>>), j + 1) ELSE ParseMembers(s, j, <<>>))
    ELSE IF c = "[" THEN (LET j == SkipWs(s, i + 1) IN
                          IF At(s, j) = "]" THEN POk(JList(<<>>), j + 1) ELSE ParseElements(s, j, <<>>))
    ELSE IF c = "\"" THEN ScanString(s, i + 1, <<>>)
    ELSE IF c = "-" \/ IsDigit(c) THEN ScanNumber(s, i)
    ELSE IF StartsWith(s, i, <<"t", "r", "u", "e">>) THEN POk(JBool(TRUE), i + 4)
    ELSE IF StartsWith(s, i, <<"f", "a", "l", "s", "e">>) THEN POk(JBool(FALSE), i + 5)
    ELSE IF StartsWith(s, i, <<"n", "u", "l", "l">>) THEN POk(JNull, i + 4)
    ELSE PFail

\* json.loads(text): one value between optional whitespace, nothing after it; ok = FALSE is ValueError
json_loads(text) ==
    LET r == ParseValue(text, SkipWs(text, 1)) IN
    IF r.ok /\ SkipWs(text, r.next) = Len(text) + 1 THEN r ELSE PFail

(* str(obj) and repr(obj) of the parsed value *)

\* the body of repr(str): backslash, the quote in use and control characters are escaped
RECURSIVE ReprEscape(_, _)
ReprEscape(s, quote) ==
    IF s = <<>> THEN <<>>
    ELSE (CASE Head(s) = "\\" -> <<"\\", "\\">>
            [] Head(s) = quote -> <<"\\", quote>>
            [] Head(s) = "\n" -> <<"\\", "n">>
            [] Head(s) = "\r" -> <<"\\", "r">>
            [] Head(s) = "\t" -> <<"\\", "t">>
            [] Head(s) = "\f" -> <<"\\", "x", "0", "c">>
            [] OTHER -> <<Head(s)>>) \o ReprEscape(Tail(s), quote)

\* repr(str): single quotes, unless the string holds a single quote and no double quote
ReprStr(s) ==
    LET quote == IF (\E i \in DOMAIN s : s[i] = "'") /\ ~(\E i \in DOMAIN s : s[i] = "\"")
                 THEN "\"" ELSE "'"
    IN <<quote>> \o ReprEscape(s, quote) \o <<quote>>

RECURSIVE PyRepr(_)
RECURSIVE ReprItems(_, _)
RECURSIVE ReprPairs(_, _)

ReprItems(items, i) ==
    IF i > Len(items) THEN <<>>
    ELSE (IF i > 1 THEN <<",", " ">> ELSE <<>>) \o PyRepr(items[i]) \o ReprItems(items, i + 1)

ReprPairs(items, i) ==
    IF i > Len(items) THEN <<>>
    ELSE (IF i > 1 THEN <<",", " ">> ELSE <<>>) \o ReprStr(items[i][1]) \o <<":", " ">> \o PyRepr(items[i][2])
         \o ReprPairs(items, i + 1)

PyRepr(v) ==
    CASE v.t = "null" -> <<"N", "o", "n", "e">>
      [] v.t = "bool" -> (IF v.n = 1 THEN <<"T", "r", "u", "e">> ELSE <<"F", "a", "l", "s", "e">>)
      [] v.t = "int" -> IntStr(v.n)
      [] v.t = "str" -> ReprStr(v.s)
      [] v.t = "list" -> <<"[">> \o ReprItems(v.items, 1) \o <<"]">>
      [] v.t = "dict" -> <<"{">> \o ReprPairs(v.items, 1) \o <<"}">>

\* str(obj): a str is itself, everything else its repr
PyStr(v) == IF v.t = "str" THEN v.s ELSE PyRepr(v)

----------------------------------------------------------------------------
(* HttpClient *)

RequestFailedPrefix == <<"R", "e", "q", "u", "e", "s", "t", " ", "f", "a", "i", "l", "e", "d", ":", " ">>
ErrorPrefix == <<"E", "r", "r", "o", "r", " ">>
UnsupportedPrefix == <<"U", "n", "s", "u", "p", "p", "o", "r", "t", "e", "d", " ", "H", "T", "T", "P", " ", "m", "e", "t", "h", "o", "d", ":", " ">>

\* requests.Response.ok: raise_for_status() raises for 400 <= status_code < 600 only
ok(response) == ~(400 <= response.status_code /\ response.status_code < 600)

\* _handle_request_error(e), e given by str(e)
_handle_request_error(e) == <<RequestFailedPrefix \o e>>

\* isinstance(value, str) and '\n' in value
IsMultiLine(value) == value.t = "str" /\ HasNewline(value.s)

\* mutant of FirstMultiLine: the loop keeps going and answers the last value that passes the test
RECURSIVE LastMultiLine(_, _)
LastMultiLine(items, i) ==
    IF i > Len(items) THEN None
    ELSE LET rest == LastMultiLine(items, i + 1) IN
         IF rest # None THEN rest
         ELSE IF IsMultiLine(items[i][2]) THEN Some(items[i][2]) ELSE None

\* the for loop over json_data.values(): the first value that passes the test
RECURSIVE FirstMultiLine(_, _)
FirstMultiLine(items, i) ==
    IF i > Len(items) THEN None
    ELSE IF IsMultiLine(items[i][2]) THEN Some(items[i][2])
    ELSE FirstMultiLine(items, i + 1)

\* _process_response(response): [raised, error, lines]; raised is an exception that is
\* not a ValueError leaving response.json()
_process_response(response) ==
    IF ~ok(response)
    THEN [raised |-> FALSE, error |-> <<>>,
          lines |-> <<ErrorPrefix \o IntStr(response.status_code) \o <<":", " ">> \o strip(response.text)>>]
    ELSE IF response.fault
    THEN [raised |-> TRUE, error |-> response.error, lines |-> <<>>]
    ELSE LET j == json_loads(response.text) IN
         IF j.ok
         THEN (IF j.v.t = "dict" /\ (\E i \in DOMAIN j.v.items : IsMultiLine(j.v.items[i][2]))
               THEN [raised |-> FALSE, error |-> <<>>, lines |-> splitlines(FirstMultiLine(j.v.items, 1)[1].s)]
               ELSE [raised |-> FALSE, error |-> <<>>, lines |-> <<PyStr(j.v)>>])
         ELSE [raised |-> FALSE, error |-> <<>>, lines |-> splitlines(response.text)]

\* mutant of _execute_request: a request that raised is issued a second time
_execute_request_retry(method, transport) ==
    LET verb == IF upper(method) = <<"G", "E", "T">> THEN "GET"
                ELSE IF upper(method) = <<"P", "O", "S", "T">> THEN "POST" ELSE ""
    IN IF verb = ""
       THEN [lines |-> <<UnsupportedPrefix \o method>>, sent |-> <<>>]
       ELSE IF transport.transport = "exception"
       THEN [lines |-> _handle_request_error(transport.error), sent |-> <<verb, verb>>]
       ELSE LET r == _process_response(transport) IN
            IF r.raised
            THEN [lines |-> _handle_request_error(r.error), sent |-> <<verb>>]
            ELSE [lines |-> r.lines, sent |-> <<verb>>]

\* _execute_request(url, method, params, data): the lines returned and the outbound
\* requests issued; `transport` is what requests.get / requests.post does
_execute_request(method, transport) ==
    LET verb == IF upper(method) = <<"G", "E", "T">> THEN "GET"
                ELSE IF upper(method) = <<"P", "O", "S", "T">> THEN "POST" ELSE ""
    IN IF verb = ""
       THEN [lines |-> <<UnsupportedPrefix \o method>>, sent |-> <<>>]
       ELSE IF transport.transport = "exception"
       THEN [lines |-> _handle_request_error(transport.error), sent |-> <<verb>>]
       ELSE LET r == _process_response(transport) IN
            IF r.raised
            THEN [lines |-> _handle_request_error(r.error), sent |-> <<verb>>]
            ELSE [lines |-> r.lines, sent |-> <<verb>>]

\* request(base_url, endpoint, method, params, data)
request(method, transport) == _execute_request(method, transport)

\* get(base_url, endpoint, params) and http_get(base_url, endpoint, params)
get(transport) == request(<<"G", "E", "T">>, transport)
http_get(transport) == get(transport)

\* http_post(base_url, endpoint, data, params)
http_post(transport) == request(<<"P", "O", "S", "T">>, transport)

----------------------------------------------------------------------------
(* State machine of the server side *)

NoCall ==
    [op |-> "none", plugin_name |-> "", image_path |-> "", raised |-> "", value |-> "",
     status_code |-> 0, results |-> <<>>, runs |-> <<>>, before |-> <<>>, after |-> <<>>]

NoStartup == [done |-> FALSE, env |-> <<>>, files |-> {}, errors |-> <<>>, checked |-> <<>>]

NoHttpCall ==
    [entry |-> "none", method |-> <<>>, transport |-> "none", error |-> <<>>,
     status_code |-> 0, text |-> <<>>, fault |-> FALSE]
NoHttpRet == [called |-> FALSE, lines |-> <<>>, sent |-> <<>>]

Init ==
    /\ plugins = <<>>
    /\ regLog = <<>>
    /\ pc = 0
    /\ phase = "importing"
    /\ environ \in Environs
    /\ fs \in FileSystems
    /\ startup = NoStartup
    /\ last = NoCall
    /\ hcall = NoHttpCall
    /\ hret = NoHttpRet

\* the next module-level analyzer.register_plugin(...) statement
ImportRegister ==
    /\ phase = "importing"
    /\ pc < Len(ModuleRegistrations)
    /\ plugins' = register_plugin(plugins, ModuleRegistrations[pc + 1])
    /\ regLog' = Append(regLog, ModuleRegistrations[pc + 1])
    /\ pc' = pc + 1
    /\ UNCHANGED <<phase, environ, fs, startup, last, hcall, hret>>

\* the server enters lifespan once the module is imported; it serves only if lifespan yields
Startup ==
    /\ phase = "importing"
    /\ pc = Len(ModuleRegistrations)
    /\ LET l == lifespan(plugins, environ, fs) IN
        /\ startup' = [done |-> TRUE, env |-> environ, files |-> fs, errors |-> l.errors, checked |-> l.checked]
        /\ phase' = IF l.raised = "" THEN "serving" ELSE "failed"
    /\ UNCHANGED <<plugins, regLog, pc, environ, fs, last, hcall, hret>>

\* the executable appears on or disappears from disk
FsChange ==
    /\ fs' \in FileSystems \ {fs}
    /\ UNCHANGED <<plugins, regLog, pc, phase, environ, startup, last, hcall, hret>>

GetAnalyzePlugin(plugin_name, image_path, proc) ==
    /\ phase = "serving"
    /\ LET r == analyze_with_plugin(plugins, plugin_name, image_path, environ, fs, proc) IN
        last' = [op |-> "GET /analyze/{plugin_name}", plugin_name |-> plugin_name, image_path |-> image_path,
                 raised |-> "", value |-> r.detail, status_code |-> r.status_code,
                 results |-> r.body, runs |-> r.runs, before |-> plugins, after |-> plugins]
    /\ UNCHANGED <<plugins, regLog, pc, phase, environ, fs, startup, hcall, hret>>

GetAnalyze(image_path, procs) ==
    /\ phase = "serving"
    /\ LET r == analyze_memory(plugins, image_path, environ, fs, procs) IN
        last' = [op |-> "GET /analyze", plugin_name |-> "", image_path |-> image_path,
                 raised |-> "", value |-> r.detail, status_code |-> r.status_code,
                 results |-> r.body, runs |-> r.runs, before |-> plugins, after |-> plugins]
    /\ UNCHANGED <<plugins, regLog, pc, phase, environ, fs, startup, hcall, hret>>

\* VolatilityMCP: the endpoint each tool hands to HttpClient.http_get, as the
\* segments of "analyze/<name>"
ToolEndpoints ==
    [get_processes   |-> <<"analyze", "process">>,
     get_connections |-> <<"analyze", "connection">>,
     get_cmdline     |-> <<"analyze", "cmdline">>]

\* self.memory_image_path: None after __init__, a path after set_memory_image
MemoryImagePaths == {None} \cup {Some(i) : i \in ImagePaths}

\* the query string sent for params={"image_path": memory_image_path}: requests
\* leaves out a parameter whose value is None
QueryParams(memory_image_path) ==
    IF memory_image_path = None THEN <<>> ELSE [image_path |-> memory_image_path[1]]

\* the app's answer to GET <vol_url>/<endpoint>?<query>: the route
\* /analyze/{plugin_name} binds the segment after "analyze" to plugin_name and
\* answers 422 without calling the handler when the required image_path is missing
ServeGet(reg, endpoint, query, env, files, proc) ==
    IF Len(endpoint) = 2 /\ endpoint[1] = "analyze"
    THEN IF "image_path" \notin DOMAIN query
         THEN [status_code |-> 422, detail |-> "Field required", body |-> <<>>, runs |-> <<>>]
         ELSE analyze_with_plugin(reg, endpoint[2], query["image_path"], env, files, proc)
    ELSE [status_code |-> 404, detail |-> "Not Found", body |-> <<>>, runs |-> <<>>]

\* one MCP tool call against the serving REST server: url = vol_url/endpoint; the
\* call record keeps the server's answer, which HttpClient then turns into lines
ToolCall(tool, memory_image_path, proc) ==
    /\ phase = "serving"
    /\ LET endpoint == ToolEndpoints[tool]
           query == QueryParams(memory_image_path)
           r == ServeGet(plugins, endpoint, query, environ, fs, proc)
       IN  last' = [op |-> tool, plugin_name |-> endpoint[2],
                    image_path |-> IF memory_image_path = None THEN "" ELSE memory_image_path[1],
                    raised |-> "", value |-> r.detail, status_code |-> r.status_code,
                    results |-> r.body, runs |-> r.runs, before |-> plugins, after |-> plugins]
    /\ UNCHANGED <<plugins, regLog, pc, phase, environ, fs, startup, hcall, hret>>

get_processes(memory_image_path, proc) == ToolCall("get_processes", memory_image_path, proc)

get_connections(memory_image_path, proc) == ToolCall("get_connections", memory_image_path, proc)

get_cmdline(memory_image_path, proc) == ToolCall("get_cmdline", memory_image_path, proc)

Next ==
    \/ ImportRegister
    \/ Startup
    \/ FsChange
    \/ \E n \in RequestNames, i \in ImagePaths, p \in ProcOutcomes : GetAnalyzePlugin(n, i, p)
    \/ \E i \in ImagePaths, ps \in [1..Len(plugins) -> BatchOutcomes] : GetAnalyze(i, ps)
    \/ \E m \in MemoryImagePaths, p \in ProcOutcomes : get_processes(m, p)
    \/ \E m \in MemoryImagePaths, p \in ProcOutcomes : get_connections(m, p)
    \/ \E m \in MemoryImagePaths, p \in ProcOutcomes : get_cmdline(m, p)

Spec == Init /\ [][Next]_vars

----------------------------------------------------------------------------
(* State machine of the VolatilityAnalyzer class on its own *)

RegisterPlugin(plugin) ==
    /\ Len(regLog) < MaxRegs
    /\ plugins' = register_plugin(plugins, plugin)
    /\ regLog' = Append(regLog, plugin)
    /\ UNCHANGED <<pc, phase, environ, fs, startup, last, hcall, hret>>

CallAnalyze(plugin_name, image_path, proc) ==
    /\ LET r == analyze(plugins, image_path, plugin_name, environ, fs, proc) IN
        /\ last' = [op |-> "analyze", plugin_name |-> plugin_name, image_path |-> image_path,
                    raised |-> r.out.raised, value |-> r.out.value, status_code |-> 0,
                    results |-> <<>>, runs |-> r.out.runs, before |-> plugins, after |-> r.plugins]
        /\ plugins' = r.plugins
    /\ UNCHANGED <<regLog, pc, phase, environ, fs, startup, hcall, hret>>

CallAnalyzeAll(image_path, procs) ==
    /\ LET r == analyze_all(plugins, image_path, environ, fs, procs) IN
        last' = [op |-> "analyze_all", plugin_name |-> "", image_path |-> image_path,
                 raised |-> r.raised, value |-> "", status_code |-> 0,
                 results |-> r.results, runs |-> r.runs, before |-> plugins, after |-> plugins]
    /\ UNCHANGED <<plugins, regLog, pc, phase, environ, fs, startup, hcall, hret>>

NextAnalyzer ==
    \/ \E p \in PluginUniverse : RegisterPlugin(p)
    \/ \E n \in RequestNames, i \in ImagePaths, p \in ProcOutcomes : CallAnalyze(n, i, p)
    \/ \E i \in ImagePaths, ps \in [1..Len(plugins) -> BatchOutcomes] : CallAnalyzeAll(i, ps)
    \/ FsChange

SpecAnalyzer == Init /\ [][NextAnalyzer]_vars

----------------------------------------------------------------------------
(* State machine of the plugin objects: the module is imported, the         *)
(* registered WindowsPlugin objects are run directly, and                   *)
(* analyzer.validate_plugins() is called at any time                        *)

\* analyzer.validate_plugins(), as lifespan calls it
ValidatePlugins ==
    /\ LET v == validate_plugins(plugins, environ, fs) IN
        startup' = [done |-> TRUE, env |-> environ, files |-> fs, errors |-> v.errors, checked |-> v.checked]
    /\ UNCHANGED <<plugins, regLog, pc, phase, environ, fs, last, hcall, hret>>

\* self.run(image_path) on a registered plugin object; the call record keeps
\* os.environ, the file system and the behaviour of subprocess.run at call time
PluginRun(self, image_path, proc) ==
    /\ LET r == run(self, image_path, environ, fs, proc) IN
        last' = [op |-> "run", plugin_name |-> self.name, image_path |-> image_path,
                 raised |-> r.raised, value |-> r.value, status_code |-> 0,
                 results |-> <<>>, runs |-> <<RunRecord(self, r)>>, before |-> plugins, after |-> plugins,
                 env |-> environ, files |-> fs, proc |-> proc]
    /\ UNCHANGED <<plugins, regLog, pc, phase, environ, fs, startup, hcall, hret>>

NextPlugin ==
    \/ ImportRegister
    \/ ValidatePlugins
    \/ FsChange
    \/ \E k \in DOMAIN plugins, i \in ImagePaths, p \in ProcOutcomes : PluginRun(plugins[k], i, p)

SpecPlugin == Init /\ [][NextPlugin]_vars

----------------------------------------------------------------------------
(* State machine of HttpClient: the inputs of one call are drawn initially, *)
(* the entry point named by the call is applied to them once                *)

\* longest body text drawn character by character
MaxTextLen == 3

TextAlphabet == {"x", "1", " ", "\n", "\r"}

RawTexts == UNION {[1..n -> TextAlphabet] : n \in 0..MaxTextLen}

\* json.dumps(obj, separators=(item, colon)): how a server writes the value down
RECURSIVE JsonEscape(_)
JsonEscape(s) ==
    IF s = <<>> THEN <<>>
    ELSE (CASE Head(s) = "\\" -> <<"\\", "\\">>
            [] Head(s) = "\"" -> <<"\\", "\"">>
            [] Head(s) = "\n" -> <<"\\", "n">>
            [] Head(s) = "\r" -> <<"\\", "r">>
            [] Head(s) = "\t" -> <<"\\", "t">>
            [] Head(s) = "\f" -> <<"\\", "f">>
            [] OTHER -> <<Head(s)>>) \o JsonEscape(Tail(s))

RECURSIVE JsonDumps(_, _, _)
RECURSIVE DumpItems(_, _, _, _)
RECURSIVE DumpPairs(_, _, _, _)

DumpItems(items, i, item, colon) ==
    IF i > Len(items) THEN <<>>
    ELSE (IF i > 1 THEN item ELSE <<>>) \o JsonDumps(items[i], item, colon)
         \o DumpItems(items, i + 1, item, colon)

DumpPairs(items, i, item, colon) ==
    IF i > Len(items) THEN <<>>
    ELSE (IF i > 1 THEN item ELSE <<>>) \o <<"\"">> \o JsonEscape(items[i][1]) \o <<"\"">> \o colon
         \o JsonDumps(items[i][2], item, colon) \o DumpPairs(items, i + 1, item, colon)

JsonDumps(v, item, colon) ==
    CASE v.t = "null" -> <<"n", "u", "l", "l">>
      [] v.t = "bool" -> (IF v.n = 1 THEN <<"t", "r", "u", "e">> ELSE <<"f", "a", "l", "s", "e">>)
      [] v.t = "int" -> IntStr(v.n)
      [] v.t = "str" -> <<"\"">> \o JsonEscape(v.s) \o <<"\"">>
      [] v.t = "list" -> <<"[">> \o DumpItems(v.items, 1, item, colon) \o <<"]">>
      [] v.t = "dict" -> <<"{">> \o DumpPairs(v.items, 1, item, colon) \o <<"}">>

\* the values a response mapping holds
EnvelopeValues ==
    { JInt(1), JNull, JStr(<<"x">>), JStr(<<"p", "\n", "q">>), JStr(<<"m", "\r", "\n", "n", "\n">>), JStr(<<"u", "\r", "v">>),
      JList(<<JStr(<<"s", "\n", "t">>)>>) }

EnvelopeKeys == {<<"a">>, <<"b">>}

\* the mappings over EnvelopeKeys, in every key order
Envelopes ==
    {JDict(<<>>)}
    \cup {JDict(<<<<k, v>>>>) : k \in EnvelopeKeys, v \in EnvelopeValues}
    \cup {JDict(<<<<k[1], v[1]>>, <<k[2], v[2]>>>>) :
            k \in {kk \in EnvelopeKeys \X EnvelopeKeys : kk[1] # kk[2]},
            v \in EnvelopeValues \X EnvelopeValues}

\* bodies written out in full: the examples of the specification, a repeated key,
\* JSON values that are not mappings, text that is not JSON
Body_a1 == <<"{", "\"", "a", "\"", ":", " ", "1", "}">>
Body_lines == <<"{", "\"", "a", "\"", ":", " ", "\"", "l", "i", "n", "e", "1", "\\", "n", "l", "i", "n", "e", "2", "\"", ",", " ", "\"", "b", "\"", ":", " ", "1", "}">>
Body_boom == <<"b", "o", "o", "m">>
ListedBodies ==
    { Body_a1,
      Body_lines,
      Body_boom,
      <<" ", "b", "o", "o", "m", "\n">>,
      <<"{", "\"", "a", "\"", ":", "\"", "p", "\\", "n", "q", "\"", ",", "\"", "a", "\"", ":", "1", "}">>,
      <<"[", "1", ",", " ", "\"", "p", "\\", "n", "q", "\"", "]">>,
      <<"\"", "p", "\\", "n", "q", "\"">>,
      <<"{", "\"", "a", "\"", ":", " ", "{", "\"", "b", "\"", ":", " ", "\"", "p", "\\", "n", "q", "\"", "}", "}">>,
      <<"t", "r", "u", "e">>,
      <<"{", "\"", "a", "\"", ":", " ", "1", ",", "}">>,
      <<"\f", "1">> }

Bodies ==
    RawTexts \cup ListedBodies
    \cup {JsonDumps(e, <<",">>, <<":">>) : e \in Envelopes}
    \cup {JsonDumps(e, <<",", " ">>, <<":", " ">>) : e \in Envelopes}

StatusCodes == {200, 204, 304, 404, 500}

ExceptionTexts == {<<"R", "e", "a", "d", " ", "t", "i", "m", "e", "d", " ", "o", "u", "t", ".", " ", "(", "r", "e", "a", "d", " ", "t", "i", "m", "e", "o", "u", "t", "=", "3", "0", ")">>, <<"C", "o", "n", "n", "e", "c", "t", "i", "o", "n", " ", "r", "e", "f", "u", "s", "e", "d">>}

\* what requests.get / requests.post does: raise, or return a response; a response with
\* fault set is one whose json() raises an exception that is not a ValueError
Transports ==
    {[transport |-> "exception", error |-> e, status_code |-> 0, text |-> <<>>, fault |-> FALSE] :
        e \in ExceptionTexts}
    \cup {[transport |-> "response", error |-> <<>>, status_code |-> c, text |-> b, fault |-> FALSE] :
        c \in StatusCodes, b \in Bodies}
    \cup {[transport |-> "response", error |-> <<"m", "a", "x", "i", "m", "u", "m", " ", "r", "e", "c", "u", "r", "s", "i", "o", "n", " ", "d", "e", "p", "t", "h", " ", "e", "x", "c", "e", "e", "d", "e", "d">>,
           status_code |-> c, text |-> b, fault |-> TRUE] :
        c \in StatusCodes, b \in ListedBodies}

RequestMethods == {<<"G", "E", "T">>, <<"g", "e", "t">>, <<"P", "o", "s", "t">>, <<"P", "U", "T">>, <<>>}

HttpCall(entry, method, t) ==
    [entry |-> entry, method |-> method, transport |-> t.transport, error |-> t.error,
     status_code |-> t.status_code, text |-> t.text, fault |-> t.fault]

HttpInputs ==
    {HttpCall("request", m, t) : m \in RequestMethods, t \in Transports}
    \cup {HttpCall("http_get", <<"G", "E", "T">>, t) : t \in Transports}
    \cup {HttpCall("http_post", <<"P", "O", "S", "T">>, t) : t \in Transports}

InitHttp ==
    /\ plugins = <<>>
    /\ regLog = <<>>
    /\ pc = 0
    /\ phase = "importing"
    /\ environ = <<>>
    /\ fs = {}
    /\ startup = NoStartup
    /\ last = NoCall
    /\ hcall \in HttpInputs
    /\ hret = NoHttpRet

Returned(r) == [called |-> TRUE, lines |-> r.lines, sent |-> r.sent]

Request ==
    /\ hcall.entry = "request"
    /\ ~hret.called
    /\ hret' = Returned(request(hcall.method, hcall))
    /\ UNCHANGED <<plugins, regLog, pc, phase, environ, fs, startup, last, hcall>>

HttpGet ==
    /\ hcall.entry = "http_get"
    /\ ~hret.called
    /\ hret' = Returned(http_get(hcall))
    /\ UNCHANGED <<plugins, regLog, pc, phase, environ, fs, startup, last, hcall>>

HttpPost ==
    /\ hcall.entry = "http_post"
    /\ ~hret.called
    /\ hret' = Returned(http_post(hcall))
    /\ UNCHANGED <<plugins, regLog, pc, phase, environ, fs, startup, last, hcall>>

NextHttp ==
    \/ Request
    \/ HttpGet
    \/ HttpPost

SpecHttp == InitHttp /\ [][NextHttp]_vars
----------------------------------------------------------------------------
(* Claims about the analyzer and the REST server *)

Names(seq) == {seq[i].name : i \in DOMAIN seq}

\* what analyze_all must store for one plugin.run invocation
ExpectedEntry(runRecord) ==
    IF runRecord.raised = "" THEN runRecord.value ELSE "Error: " \o runRecord.value

\* C1: analyze_all never raises; its result has exactly one entry per registered
\* plugin name, a failing plugin's entry being "Error: <message>" and every other
\* entry that plugin's output; every plugin is run, also those after a failing one.
C1_AnalyzeAllIsolation ==
    last.op = "analyze_all" =>
        /\ last.raised = ""
        /\ Len(last.results) = Len(last.before)
        /\ Len(last.runs) = Len(last.before)
        /\ \A i \in DOMAIN last.before :
              /\ last.runs[i].plugin = last.before[i]
              /\ \E j \in DOMAIN last.results :
                    /\ last.results[j][1] = last.before[i].name
                    /\ last.results[j][2] = ExpectedEntry(last.runs[i])

\* a batch in which a plugin fails and a later plugin is run and succeeds
C1_Witness ==
    /\ last.op = "analyze_all"
    /\ \E i, j \in DOMAIN last.runs :
          /\ i < j
          /\ last.runs[i].raised # ""
          /\ last.runs[j].raised = "" /\ last.runs[j].spawned # <<>>
          /\ last.results[j][2] = last.runs[j].value

\* C2 (as claimed): GET /analyze/{plugin_name} answers 404 for an unregistered name,
\* and 500 only when a registered plugin's execution fails.
C2_UnknownIs404 ==
    last.op = "GET /analyze/{plugin_name}" =>
        IF last.plugin_name \notin Names(last.before)
        THEN last.status_code = 404
        ELSE last.status_code = (IF last.runs[1].raised = "" THEN 200 ELSE 500)

\* C8: analyze with an unregistered name fails with "Plugin <name> not found" and
\* invokes no run(); with a registered name it invokes exactly that plugin's run()
\* once and returns its output or propagates its failure; the registry is unchanged.
C8_AnalyzeDispatch ==
    last.op = "analyze" =>
        /\ last.after = last.before
        /\ IF last.plugin_name \notin Names(last.before)
           THEN /\ last.raised = "ValueError"
                /\ last.value = "Plugin " \o last.plugin_name \o " not found"
                /\ last.runs = <<>>
           ELSE /\ Len(last.runs) = 1
                /\ last.runs[1].plugin.name = last.plugin_name
                /\ \E i \in DOMAIN last.before : last.before[i] = last.runs[1].plugin
                /\ Len(last.runs[1].spawned) <= 1
                /\ last.raised = last.runs[1].raised
                /\ last.value = last.runs[1].value

\* analyze of an unregistered name on a non-empty registry
C8_Witness ==
    /\ last.op = "analyze"
    /\ last.before # <<>>
    /\ last.plugin_name \notin Names(last.before)
    /\ last.raised = "ValueError"

\* the last position of regLog that registered `name`
LastRegistration(name) ==
    CHOOSE i \in DOMAIN regLog :
        /\ regLog[i].name = name
        /\ \A j \in DOMAIN regLog : regLog[j].name = name => j <= i

\* C9: get_plugin(N) is the plugin most recently registered under N, a repeated name
\* replaces without changing the number of distinct names, and get_plugin of a
\* never-registered name is None.
C9_LastRegistrationWins ==
    /\ \A n \in Names(regLog) : get_plugin(plugins, n) = Some(regLog[LastRegistration(n)])
    /\ Len(plugins) = Cardinality(Names(regLog))
    /\ Cardinality(Names(plugins)) = Len(plugins)
    /\ \A n \in RequestNames \cup {p.name : p \in PluginUniverse} : n \notin Names(regLog) => get_plugin(plugins, n) = None

\* a name registered twice with different plugins, the registry holding the later one
C9_Witness ==
    \E i, j \in DOMAIN regLog :
        /\ i < j
        /\ regLog[i].name = regLog[j].name
        /\ regLog[i] # regLog[j]
        /\ j = LastRegistration(regLog[j].name)
        /\ get_plugin(plugins, regLog[j].name) = Some(regLog[j])
        /\ Len(plugins) < Len(regLog)

\* the shared precondition of validate_plugins fails on this environment
BinaryMissing(env, files) ==
    \/ "VOLATILITY_BIN" \notin DOMAIN env
    \/ env["VOLATILITY_BIN"] \notin files

\* C10: with VOLATILITY_BIN unset or naming a missing path, validate_plugins returns
\* exactly one error, about that precondition, and checks no plugin; lifespan raises,
\* and the process serves no /analyze request.
C10_StartupBlocks ==
    /\ (startup.done /\ BinaryMissing(startup.env, startup.files)) =>
          /\ Len(startup.errors) = 1
          /\ startup.errors[1] \in
                {"VOLATILITY_BIN environment variable is not set",
                 "Volatility executable not found at " \o VolBinPath}
          /\ startup.checked = <<>>
          /\ phase = "failed"
    /\ phase = "failed" => last.op = "none"
    /\ last.op # "none" => startup.done /\ startup.errors = <<>>

\* startup on a configured path that is not on disk
C10_Witness ==
    /\ startup.done
    /\ "VOLATILITY_BIN" \in DOMAIN startup.env
    /\ startup.env["VOLATILITY_BIN"] = VolBinPath
    /\ startup.files = {}
    /\ phase = "failed"
    /\ Len(plugins) = Len(ModuleRegistrations)

\* C11: run checks the executable at every call, whatever validate_plugins found
\* earlier: with VOLATILITY_BIN unset or naming a missing path at call time it raises
\* and invokes no process; otherwise it invokes subprocess.run exactly once, with
\* [executable, "-f", image_path, plugin command], returns the captured stdout as it
\* is on exit status 0, and on another exit status raises with the captured stderr.
C11_RunChecksEveryCall ==
    last.op = "run" =>
        LET r == last.runs[1]
            argv == <<last.env["VOLATILITY_BIN"], "-f", last.image_path, r.plugin.plugin_name>>
        IN  /\ Len(last.runs) = 1
            /\ IF BinaryMissing(last.env, last.files)
               THEN last.raised # "" /\ r.spawned = <<>>
               ELSE /\ r.spawned = <<argv>>
                    /\ (last.proc.started /\ last.proc.returncode = 0) =>
                            (last.raised = "" /\ last.value = last.proc.stdout)
                    /\ (last.proc.started /\ last.proc.returncode # 0) =>
                            /\ last.raised = "RuntimeError"
                            /\ last.value = "Plugin " \o r.plugin.name \o " failed: " \o last.proc.stderr

\* the startup validation passed, the executable was removed afterwards, and a run
\* then failed without invoking a process
C11_Witness ==
    /\ startup.done
    /\ startup.errors = <<>>
    /\ Len(startup.checked) = Len(ModuleRegistrations)
    /\ last.op = "run"
    /\ last.env = startup.env
    /\ last.files = {}
    /\ last.raised = "RuntimeError"
    /\ last.value = "Volatility executable not found at " \o VolBinPath
    /\ last.runs[1].spawned = <<>>

\* the REST server's answer says the requested plugin is not in the registry
PluginNotFound(call) ==
    \/ call.status_code = 404
    \/ call.value = "404: Plugin " \o call.plugin_name \o " not found"

\* C12 (as claimed): every MCP tool requests analyze/<name> with <name> a plugin
\* registered when the server started, and a started server answers no tool call
\* with plugin-not-found.
C12_ToolsNameRegisteredPlugins ==
    last.op \in DOMAIN ToolEndpoints =>
        /\ last.plugin_name \in Names(last.before)
        /\ last.plugin_name \in {startup.checked[i] : i \in DOMAIN startup.checked}
        /\ ~PluginNotFound(last)

----------------------------------------------------------------------------
(* Claims about HttpClient *)

\* the call reached the transport and got a response back
GotResponse == hret.called /\ hret.sent # <<>> /\ hcall.transport = "response"

\* the response was taken down the success path and its body parsed as JSON
ParsedJson == GotResponse /\ hcall.status_code < 400 /\ ~hcall.fault /\ json_loads(hcall.text).ok

\* the parsed body is a mapping holding a string value with a line break
HasMultiLineValue ==
    LET v == json_loads(hcall.text).v IN
    v.t = "dict" /\ \E i \in DOMAIN v.items : v.items[i][2].t = "str" /\ HasNewline(v.items[i][2].s)

\* C3 (as claimed): every call returns a non-empty list of lines, whatever the outcome.
C3_NonEmptyLines ==
    hret.called => hret.lines # <<>>

\* t is text without its leading and trailing whitespace
IsTrimOf(t, text) ==
    \E a \in 0..Len(text) :
        /\ a + Len(t) <= Len(text)
        /\ t = SubSeq(text, a + 1, a + Len(t))
        /\ \A k \in 1..a : text[k] \in PyWhitespace
        /\ \A k \in (a + Len(t) + 1)..Len(text) : text[k] \in PyWhitespace
        /\ t # <<>> => (t[1] \notin PyWhitespace /\ t[Len(t)] \notin PyWhitespace)

\* lines is the single element "Error <status_code>: <trimmed body>"
IsErrorLine(lines) ==
    LET pre == ErrorPrefix \o IntStr(hcall.status_code) \o <<":", " ">> IN
    /\ Len(lines) = 1
    /\ Len(lines[1]) >= Len(pre)
    /\ SubSeq(lines[1], 1, Len(pre)) = pre
    /\ IsTrimOf(SubSeq(lines[1], Len(pre) + 1, Len(lines[1])), hcall.text)

\* C4 (as claimed): every response with a status code outside 200..299, 3xx included,
\* yields the single element "Error <statusCode>: <trimmed body>".
C4_Non2xxIsError ==
    (GotResponse /\ hcall.status_code \notin 200..299) => IsErrorLine(hret.lines)

\* C4 (amended): every response with a status code in 400..599 yields the single element
\* "Error <statusCode>: <trimmed body>" and its body is not parsed; a response with a
\* status code below 400, 3xx included, is processed exactly as a 200 response with the
\* same body is.
C4_FailureStatusIsError ==
    /\ (GotResponse /\ hcall.status_code \in 400..599) => IsErrorLine(hret.lines)
    /\ (GotResponse /\ hcall.status_code < 400 /\ ~hcall.fault) =>
          hret.lines = _process_response([status_code |-> 200, text |-> hcall.text,
                                          fault |-> FALSE, error |-> <<>>]).lines

\* HTTP 500 with body " boom\n" gives ["Error 500: boom"]
C4_Witness ==
    /\ GotResponse
    /\ hcall.status_code = 500
    /\ hcall.text = <<" ", "b", "o", "o", "m", "\n">>
    /\ hret.lines = <<<<"E", "r", "r", "o", "r", " ", "5", "0", "0", ":", " ", "b", "o", "o", "m">>>>

\* C5: when the parsed body is a mapping holding a string value with a line break, the
\* result is the lines of the first such value in the mapping's order, and nothing else.
C5_FirstMultiLineValue ==
    (ParsedJson /\ HasMultiLineValue) =>
        LET items == json_loads(hcall.text).v.items IN
        \E i \in DOMAIN items :
            /\ items[i][2].t = "str" /\ HasNewline(items[i][2].s)
            /\ \A j \in 1..(i - 1) : ~(items[j][2].t = "str" /\ HasNewline(items[j][2].s))
            /\ hret.lines = splitlines(items[i][2].s)

\* a mapping whose first value is a string without a line break and whose second and
\* third candidates differ: the second value's lines are returned
C5_Witness ==
    /\ ParsedJson
    /\ HasMultiLineValue
    /\ LET items == json_loads(hcall.text).v.items IN
         /\ Len(items) = 2
         /\ items[1][2] = JStr(<<"u", "\r", "v">>)
         /\ items[2][2] = JStr(<<"p", "\n", "q">>)
    /\ hret.lines = <<<<"p">>, <<"q">>>>

\* C6 (as claimed): when the parsed body holds no multi-line string value in a top-level
\* mapping, the result is one element, the value's text; for body {"a": 1} it is {"a": 1}.
C6_JsonTextElement ==
    (ParsedJson /\ ~HasMultiLineValue) =>
        /\ Len(hret.lines) = 1
        /\ hcall.text = Body_a1 => hret.lines[1] = Body_a1

====
